---- MODULE Spec2Model ----
(***************************************************************************)
(* The task collection manager of the to-do list (ts/taskManager.ts, and   *)
(* its compiled twin js/taskManager.js): an ordered collection of tasks    *)
(* and a current filter, with the operations addTask, removeTask,          *)
(* toggleTask, clearCompleted, getFilteredTasks, setFilter, getStats,      *)
(* loadTasks and getAllTasks.                                              *)
(*                                                                         *)
(* A text is a sequence of characters, so that trim() is computed and not  *)
(* assumed.  Date.now() is a clock that never runs backwards and that may  *)
(* return the same millisecond on consecutive reads.                       *)
(***************************************************************************)
EXTENDS Integers, Sequences, FiniteSets, TLC

\* ------------------------------------------------------------------ bounds
\* Most tasks the collection holds before addTask stops being offered.
MaxTasks == 3
\* Last millisecond the clock reaches.
MaxClock == 2
\* Most saves that fail in one run of TaskApp.
MaxFailures == 1

\* ------------------------------------------------------------- characters
Whitespace == {" "}
Chars == Whitespace \cup {"a"}

\* What is typed into addTask: empty, whitespace only, and texts with
\* whitespace before, after and inside.
Texts ==
    {<<>>, <<" ">>, <<" ", " ">>,
     <<"a">>, <<" ", "a">>, <<"a", " ">>, <<" ", "a", " ", "a", " ">>}

\* String.prototype.trim: whitespace removed from both ends.
RECURSIVE TrimStart(_)
TrimStart(s) ==
    IF s = <<>> THEN <<>>
    ELSE IF Head(s) \in Whitespace THEN TrimStart(Tail(s)) ELSE s

RECURSIVE TrimEnd(_)
TrimEnd(s) ==
    IF s = <<>> THEN <<>>
    ELSE IF s[Len(s)] \in Whitespace THEN TrimEnd(SubSeq(s, 1, Len(s) - 1)) ELSE s

Trim(s) == TrimEnd(TrimStart(s))

\* Date.prototype.toISOString of the instant ms: the text form of the instant.
ToISOString(ms) == <<"T", ToString(ms), "Z">>

\* ------------------------------------------------------------------ types
FilterTypes == {"all", "active", "completed"}
\* What a caller may hand to setFilter(filter: string).
FilterArgs == FilterTypes \cup {"bogus", ""}

\* An optional number argument: {} when omitted, {n} when supplied.
NoId == {}

\* Ids a caller may pass to removeTask and toggleTask; MaxClock + 1 is never
\* the id of a task.
IdArgs == 1..(MaxClock + 1)

\* Task-shaped values found in an array handed to loadTasks: nothing checks
\* their fields.
LoadTaskItems ==
    {[id |-> id, text |-> <<"b">>, completed |-> completed, createdAt |-> ToISOString(id)] :
        id \in 1..MaxClock, completed \in BOOLEAN}
    \cup {[id |-> 1, text |-> <<" ">>, completed |-> FALSE, createdAt |-> ToISOString(1)]}

\* The argument of loadTasks: an array, or a value that is no array.
NotAnArray == [isArray |-> FALSE, items |-> <<>>]
Candidates ==
    {[isArray |-> TRUE, items |-> s] :
        s \in {<<>>} \cup {<<x>> : x \in LoadTaskItems}
                     \cup {<<x, y>> : x \in LoadTaskItems, y \in LoadTaskItems}}
        \cup {NotAnArray}

\* ------------------------------------------------------------------ state
VARIABLES
    tasks,          \* TaskManager.tasks
    currentFilter,  \* TaskManager.currentFilter
    clock,          \* the last value Date.now() returned
    call,           \* the operation last called, with its arguments
    ret,            \* what that operation returned
    hist,           \* what has been called since construction
    store,          \* localStorage's slot STORAGE_KEY
    view,           \* what TaskApp.render last put on the page
    io,             \* what the last TaskApp handler did to the store and the page
    failures,       \* how many saves have failed
    lastSaved,      \* the collection TaskApp's last successful save wrote
    readFailed      \* whether the load of this TaskApp's constructor failed

\* What TaskApp adds to the manager's state.
appVars == <<store, view, io, failures, lastSaved, readFailed>>
vars ==
    <<tasks, currentFilter, clock, call, ret, hist, store, view, io, failures,
      lastSaved, readFailed>>

NoCall ==
    [op |-> "new", text |-> <<>>, id |-> 0, idArg |-> NoId, filter |-> "",
     cand |-> NotAnArray]
Call(op) == [NoCall EXCEPT !.op = op]

NoStats == [total |-> 0, active |-> 0, completed |-> 0]
Void == [tag |-> "void", tasks |-> <<>>, n |-> 0, stats |-> NoStats]
Ret(tag) == [Void EXCEPT !.tag = tag]
RetTask(t) == [Void EXCEPT !.tag = "task", !.tasks = <<t>>]
RetBool(b) == Ret(IF b THEN "true" ELSE "false")
RetNum(n) == [Void EXCEPT !.tag = "number", !.n = n]
RetTasks(ts) == [Void EXCEPT !.tag = "array", !.tasks = ts]
RetStats(stats) == [Void EXCEPT !.tag = "stats", !.stats = stats]

\* hist: whether only successful adds and toggles have changed the collection
\* since construction (pure), and how many toggles there were.
Fresh == [pure |-> TRUE, toggles |-> "none"]
Tainted == [pure |-> FALSE, toggles |-> "none"]
Toggled(h) ==
    IF h.pure
    THEN [h EXCEPT !.toggles = IF @ = "none" THEN "one" ELSE "more"]
    ELSE h

\* ------------------------------------------------------------ createTask
Min(a, b) == IF a < b THEN a ELSE b

createTaskUntrimmed(text, id, now, iso) ==
    [id |-> IF id = NoId \/ id = {0} THEN now ELSE CHOOSE n \in id : TRUE,
     text |-> text,
     completed |-> FALSE,
     createdAt |-> iso]

\* id || Date.now(): an omitted id and the id 0 are both falsy.
createTask(text, id, now, iso) ==
    [id |-> IF id = NoId \/ id = {0} THEN now ELSE CHOOSE n \in id : TRUE,
     text |-> Trim(text),
     completed |-> FALSE,
     createdAt |-> iso]

\* The second argument of createTask: omitted, or an integer, 0 among them.
CreateIdArgs == {NoId} \cup {{n} : n \in 0..(MaxClock + 1)}

\* createTask(text, id) called directly, as a test does for an id it chooses;
\* both Date.now() and new Date() read the clock.
createTaskCall(text, idArg) ==
    /\ call' = [Call("createTask") EXCEPT !.text = text, !.idArg = idArg]
    /\ \E now \in clock..Min(clock + 1, MaxClock) :
          /\ ret' = RetTask(createTask(text, idArg, now, ToISOString(now)))
          /\ clock' = now
    /\ UNCHANGED <<tasks, currentFilter, hist>>

\* --------------------------------------------------------------- addTask
isInvalidTextUntrimmed(text) == text = <<>>

\* !text || !text.trim()
isInvalidText(text) == text = <<>> \/ Trim(text) = <<>>

\* unshift in place of push: the new task goes to the front.
addTaskUnshift(text) ==
    /\ call' = [Call("addTask") EXCEPT !.text = text]
    /\ IF isInvalidText(text)
       THEN /\ ret' = Ret("null")
            /\ UNCHANGED <<tasks, currentFilter, clock, hist>>
       ELSE /\ Len(tasks) < MaxTasks
            /\ \E now \in clock..Min(clock + 1, MaxClock) :
                  LET task == createTask(text, NoId, now, ToISOString(now))
                  IN  /\ tasks' = <<task>> \o tasks
                      /\ ret' = RetTask(task)
                      /\ clock' = now
            /\ UNCHANGED <<currentFilter, hist>>

addTask(text) ==
    /\ call' = [Call("addTask") EXCEPT !.text = text]
    /\ IF isInvalidText(text)
       THEN /\ ret' = Ret("null")
            /\ UNCHANGED <<tasks, currentFilter, clock, hist>>
       ELSE /\ Len(tasks) < MaxTasks
            /\ \E now \in clock..Min(clock + 1, MaxClock) :
                  LET task == createTask(text, NoId, now, ToISOString(now))
                  IN  /\ tasks' = Append(tasks, task)
                      /\ ret' = RetTask(task)
                      /\ clock' = now
            /\ UNCHANGED <<currentFilter, hist>>

\* ------------------------------------------------------------ removeTask
\* Array.prototype.findIndex: the first position holding id, 0 when none does.
findIndex(ts, id) ==
    IF \E i \in 1..Len(ts) : ts[i].id = id
    THEN CHOOSE i \in 1..Len(ts) :
            /\ ts[i].id = id
            /\ \A j \in 1..(i - 1) : ts[j].id # id
    ELSE 0

RemoveAt(ts, i) == SubSeq(ts, 1, i - 1) \o SubSeq(ts, i + 1, Len(ts))

\* splice(findIndex(...), 1) without a test for -1: an unknown id removes the
\* last element.
removeTaskBySplice(ts, id) ==
    IF ts = <<>> THEN ts
    ELSE IF findIndex(ts, id) = 0 THEN RemoveAt(ts, Len(ts))
    ELSE RemoveAt(ts, findIndex(ts, id))

\* this.tasks.filter(task => task.id !== id)
removeTaskFilter(ts, id) == SelectSeq(ts, LAMBDA task : task.id # id)

removeTask(id) ==
    LET initialLength == Len(tasks)
        kept == removeTaskFilter(tasks, id)
    IN  /\ call' = [Call("removeTask") EXCEPT !.id = id]
        /\ tasks' = kept
        /\ ret' = RetBool(Len(kept) < initialLength)
        /\ hist' = Tainted
        /\ UNCHANGED <<currentFilter, clock>>

\* ------------------------------------------------------------ toggleTask
\* this.tasks.find(t => t.id === id), then task.completed = !task.completed on
\* the object found: the first task holding id.
toggleTaskSetsCompleted(ts, id) ==
    LET i == findIndex(ts, id)
    IN  IF i # 0 THEN [ts EXCEPT ![i].completed = TRUE] ELSE ts

\* The collection after toggleTask(id).
toggleTaskTasks(ts, id) ==
    LET i == findIndex(ts, id)
    IN  IF i # 0 THEN [ts EXCEPT ![i].completed = ~@] ELSE ts

toggleTask(id) ==
    LET i == findIndex(tasks, id)
    IN  /\ call' = [Call("toggleTask") EXCEPT !.id = id]
        /\ IF i # 0
           THEN /\ tasks' = toggleTaskTasks(tasks, id)
                /\ ret' = RetTask(tasks'[i])
                /\ hist' = Toggled(hist)
           ELSE /\ ret' = Ret("null")
                /\ UNCHANGED <<tasks, hist>>
        /\ UNCHANGED <<currentFilter, clock>>

\* -------------------------------------------------------- clearCompleted
clearCompletedKeepsCompleted(ts) == SelectSeq(ts, LAMBDA task : task.completed)

\* this.tasks.filter(task => !task.completed)
clearCompletedFilter(ts) == SelectSeq(ts, LAMBDA task : ~task.completed)

clearCompleted ==
    LET initialLength == Len(tasks)
        kept == clearCompletedFilter(tasks)
    IN  /\ call' = Call("clearCompleted")
        /\ tasks' = kept
        /\ ret' = RetNum(initialLength - Len(kept))
        /\ hist' = Tainted
        /\ UNCHANGED <<currentFilter, clock>>

\* ------------------------------------------------------ getFilteredTasks
\* The two cases of the switch exchanged.
getFilteredTasksSwapped(ts, filter) ==
    CASE filter = "active" -> SelectSeq(ts, LAMBDA task : task.completed)
      [] filter = "completed" -> SelectSeq(ts, LAMBDA task : ~task.completed)
      [] OTHER -> ts

getFilteredTasks(ts, filter) ==
    CASE filter = "active" -> SelectSeq(ts, LAMBDA task : ~task.completed)
      [] filter = "completed" -> SelectSeq(ts, LAMBDA task : task.completed)
      [] OTHER -> ts

getFilteredTasksCall ==
    /\ call' = Call("getFilteredTasks")
    /\ ret' = RetTasks(getFilteredTasks(tasks, currentFilter))
    /\ UNCHANGED <<tasks, currentFilter, clock, hist>>

\* ------------------------------------------------------------- setFilter
setFilterUnchecked(current, filter) == filter

\* if (['all', 'active', 'completed'].includes(filter)) this.currentFilter = filter
setFilterResult(current, filter) ==
    IF filter \in {"all", "active", "completed"} THEN filter ELSE current

setFilter(filter) ==
    /\ call' = [Call("setFilter") EXCEPT !.filter = filter]
    /\ currentFilter' = setFilterResult(currentFilter, filter)
    /\ ret' = Void
    /\ UNCHANGED <<tasks, clock, hist>>

\* -------------------------------------------------------------- getStats
getStatsActiveIsLength(ts) ==
    [total |-> Len(ts),
     active |-> Len(ts),
     completed |-> Len(SelectSeq(ts, LAMBDA t : t.completed))]

getStatsSwapped(ts) ==
    [total |-> Len(ts),
     active |-> Len(SelectSeq(ts, LAMBDA t : t.completed)),
     completed |-> Len(SelectSeq(ts, LAMBDA t : ~t.completed))]

getStats(ts) ==
    [total |-> Len(ts),
     active |-> Len(SelectSeq(ts, LAMBDA t : ~t.completed)),
     completed |-> Len(SelectSeq(ts, LAMBDA t : t.completed))]

getStatsCall ==
    /\ call' = Call("getStats")
    /\ ret' = RetStats(getStats(tasks))
    /\ UNCHANGED <<tasks, currentFilter, clock, hist>>

\* ------------------------------------------------------------- loadTasks
\* Array.isArray(tasks) ? tasks : []
loadTasksResult(cand) == IF cand.isArray THEN cand.items ELSE <<>>

\* push(...tasks) in place of the assignment: the candidate is added to the
\* tasks held.
loadTasksAppends(cand) ==
    /\ call' = [Call("loadTasks") EXCEPT !.cand = cand]
    /\ tasks' = tasks \o loadTasksResult(cand)
    /\ ret' = Void
    /\ hist' = Tainted
    /\ UNCHANGED <<currentFilter, clock>>

\* loadTasks that also puts the filter back to all, as the constructor does.
loadTasksResetsFilter(cand) ==
    /\ call' = [Call("loadTasks") EXCEPT !.cand = cand]
    /\ tasks' = loadTasksResult(cand)
    /\ currentFilter' = "all"
    /\ ret' = Void
    /\ hist' = Tainted
    /\ UNCHANGED clock

loadTasks(cand) ==
    /\ call' = [Call("loadTasks") EXCEPT !.cand = cand]
    /\ tasks' = loadTasksResult(cand)
    /\ ret' = Void
    /\ hist' = Tainted
    /\ UNCHANGED <<currentFilter, clock>>

\* ----------------------------------------------------------- getAllTasks
getAllTasks(ts) == ts

getAllTasksCall ==
    /\ call' = Call("getAllTasks")
    /\ ret' = RetTasks(getAllTasks(tasks))
    /\ UNCHANGED <<tasks, currentFilter, clock, hist>>

\* ------------------------------------------------------------------ page
\* The page before any render, and the handler record before any handler.
NoView ==
    [taskList |-> <<>>, emptyState |-> FALSE, taskCount |-> <<>>,
     clearCompletedBtn |-> FALSE]
Absent == [present |-> FALSE, text |-> <<>>]
NoIo == [handler |-> "none", writes |-> 0, failed |-> FALSE, logged |-> 0,
         threw |-> FALSE, rendered |-> FALSE]

\* --------------------------------------------------------------- JSON
\* A JSON text is a sequence of tokens; a string token holds the characters
\* between its quotes, escapes included.
Tok(t) == [t |-> t, s |-> <<>>, n |-> 0]
StrTok(s) == [t |-> "str", s |-> s, n |-> 0]
NumTok(n) == [t |-> "num", s |-> <<>>, n |-> n]

Escaped == {"\"", "\\"}

EscapeNothing(s) == s

\* Quote and backslash are written with a backslash before them.
RECURSIVE Escape(_)
Escape(s) ==
    IF s = <<>> THEN <<>>
    ELSE (IF Head(s) \in Escaped THEN <<"\\", Head(s)>> ELSE <<Head(s)>>)
             \o Escape(Tail(s))

\* The characters a string token stands for; not ok when a backslash ends it
\* or a quote is bare.
RECURSIVE Unescape(_)
Unescape(s) ==
    IF s = <<>> THEN [ok |-> TRUE, s |-> <<>>]
    ELSE IF Head(s) = "\\"
    THEN IF Len(s) >= 2 /\ s[2] \in Escaped
         THEN LET more == Unescape(Tail(Tail(s)))
              IN  [ok |-> more.ok, s |-> <<s[2]>> \o more.s]
         ELSE [ok |-> FALSE, s |-> <<>>]
    ELSE IF Head(s) = "\""
    THEN [ok |-> FALSE, s |-> <<>>]
    ELSE LET more == Unescape(Tail(s))
         IN  [ok |-> more.ok, s |-> <<Head(s)>> \o more.s]

\* JSON.stringify of one task: its own properties in the order createTask
\* wrote them.
StringifyTask(task) ==
    <<Tok("{"),
      StrTok(Escape(<<"id">>)), Tok(":"), NumTok(task.id), Tok(","),
      StrTok(Escape(<<"text">>)), Tok(":"), StrTok(Escape(task.text)), Tok(","),
      StrTok(Escape(<<"completed">>)), Tok(":"),
          Tok(IF task.completed THEN "true" ELSE "false"), Tok(","),
      StrTok(Escape(<<"createdAt">>)), Tok(":"), StrTok(Escape(task.createdAt)),
      Tok("}")>>

RECURSIVE StringifyElements(_)
StringifyElements(ts) ==
    IF ts = <<>> THEN <<>>
    ELSE IF Len(ts) = 1 THEN StringifyTask(ts[1])
    ELSE StringifyTask(ts[1]) \o <<Tok(",")>> \o StringifyElements(Tail(ts))

\* JSON.stringify(tasks)
JSONStringify(ts) == <<Tok("[")>> \o StringifyElements(ts) \o <<Tok("]")>>

\* JSON.parse: the value a text stands for, its kind, and the tokens left; not
\* ok on a SyntaxError.  A property name is one symbol ("id", "text", ...).
ParseFail == [ok |-> FALSE, kind |-> "none", val |-> <<>>, rest |-> <<>>]
Parsed(kind, val, rest) == [ok |-> TRUE, kind |-> kind, val |-> val, rest |-> rest]

\* The object with the given <<name, value>> pairs; a later pair wins.
ObjectOf(pairs) ==
    [name \in {pairs[i][1] : i \in 1..Len(pairs)} |->
        LET last == CHOOSE i \in 1..Len(pairs) :
                        /\ pairs[i][1] = name
                        /\ \A j \in (i + 1)..Len(pairs) : pairs[j][1] # name
        IN  pairs[last][2]]

RECURSIVE ParseValue(_), ParseElements(_, _), ParseMembers(_, _)

ParseValue(toks) ==
    IF toks = <<>> THEN ParseFail
    ELSE LET h == Head(toks)
             r == Tail(toks)
         IN  CASE h.t = "num" -> Parsed("number", h.n, r)
               [] h.t = "str" ->
                      LET u == Unescape(h.s)
                      IN  IF u.ok THEN Parsed("string", u.s, r) ELSE ParseFail
               [] h.t = "true" -> Parsed("boolean", TRUE, r)
               [] h.t = "false" -> Parsed("boolean", FALSE, r)
               [] h.t = "null" -> Parsed("null", <<>>, r)
               [] h.t = "[" ->
                      IF r # <<>> /\ Head(r).t = "]"
                      THEN Parsed("array", <<>>, Tail(r))
                      ELSE ParseElements(r, <<>>)
               [] h.t = "{" ->
                      IF r # <<>> /\ Head(r).t = "}"
                      THEN Parsed("object", ObjectOf(<<>>), Tail(r))
                      ELSE ParseMembers(r, <<>>)
               [] OTHER -> ParseFail

ParseElements(toks, acc) ==
    LET v == ParseValue(toks)
    IN  IF ~v.ok \/ v.rest = <<>> THEN ParseFail
        ELSE CASE Head(v.rest).t = "," -> ParseElements(Tail(v.rest), Append(acc, v.val))
               [] Head(v.rest).t = "]" -> Parsed("array", Append(acc, v.val), Tail(v.rest))
               [] OTHER -> ParseFail

ParseMembers(toks, acc) ==
    IF Len(toks) < 3 \/ toks[1].t # "str" \/ toks[2].t # ":" THEN ParseFail
    ELSE LET name == Unescape(toks[1].s)
             v == ParseValue(SubSeq(toks, 3, Len(toks)))
         IN  IF ~name.ok \/ Len(name.s) # 1 \/ ~v.ok \/ v.rest = <<>> THEN ParseFail
             ELSE LET pairs == Append(acc, <<name.s[1], v.val>>)
                  IN  CASE Head(v.rest).t = "," -> ParseMembers(Tail(v.rest), pairs)
                        [] Head(v.rest).t = "}" ->
                               Parsed("object", ObjectOf(pairs), Tail(v.rest))
                        [] OTHER -> ParseFail

JSONParse(text) ==
    LET v == ParseValue(text)
    IN  IF v.ok /\ v.rest = <<>> THEN v ELSE ParseFail

\* ------------------------------------------------------------ storage
\* What can go wrong with the store during one call.
Faults == {"none", "quota", "unavailable", "serialize"}
\* Those that getItem and removeItem can meet.
ReadFaults == {"none", "unavailable"}

Slot(text) == [present |-> TRUE, text |-> text]

\* saveTasks without its try/catch: the error leaves the function.
saveTasksUncaught(ts, slot, fault) ==
    CASE fault = "serialize" ->
             [store |-> slot, writes |-> 0, logged |-> 0, threw |-> TRUE]
      [] fault \in {"quota", "unavailable"} ->
             [store |-> slot, writes |-> 1, logged |-> 0, threw |-> TRUE]
      [] OTHER ->
             [store |-> Slot(JSONStringify(ts)), writes |-> 1, logged |-> 0,
              threw |-> FALSE]

\* saveTasks(tasks): JSON.stringify, then setItem; an error of either is caught
\* and logged.  writes counts the calls of setItem.
saveTasks(ts, slot, fault) ==
    CASE fault = "serialize" ->
             [store |-> slot, writes |-> 0, logged |-> 1, threw |-> FALSE]
      [] fault \in {"quota", "unavailable"} ->
             [store |-> slot, writes |-> 1, logged |-> 1, threw |-> FALSE]
      [] OTHER ->
             [store |-> Slot(JSONStringify(ts)), writes |-> 1, logged |-> 0,
              threw |-> FALSE]

\* js/storage.js loadTasks(): getItem, null gives [], and otherwise whatever
\* JSON.parse returns, array or not; an error is caught and logged and gives
\* [].
storageLoadTasksJs(slot, fault) ==
    IF fault = "unavailable"
    THEN [value |-> [isArray |-> TRUE, items |-> <<>>], logged |-> 1]
    ELSE IF ~slot.present
    THEN [value |-> [isArray |-> TRUE, items |-> <<>>], logged |-> 0]
    ELSE LET parsed == JSONParse(slot.text)
         IN  IF ~parsed.ok
             THEN [value |-> [isArray |-> TRUE, items |-> <<>>], logged |-> 1]
             ELSE IF parsed.kind = "array"
             THEN [value |-> [isArray |-> TRUE, items |-> parsed.val], logged |-> 0]
             ELSE [value |-> NotAnArray, logged |-> 0]

\* The storage module's loadTasks(): getItem, null gives [], JSON.parse, an
\* array is returned and anything else gives []; an error is caught and
\* logged and gives [].
storageLoadTasks(slot, fault) ==
    IF fault = "unavailable"
    THEN [value |-> [isArray |-> TRUE, items |-> <<>>], logged |-> 1]
    ELSE IF ~slot.present
    THEN [value |-> [isArray |-> TRUE, items |-> <<>>], logged |-> 0]
    ELSE LET parsed == JSONParse(slot.text)
         IN  IF ~parsed.ok
             THEN [value |-> [isArray |-> TRUE, items |-> <<>>], logged |-> 1]
             ELSE IF parsed.kind = "array"
             THEN [value |-> [isArray |-> TRUE, items |-> parsed.val], logged |-> 0]
             ELSE [value |-> [isArray |-> TRUE, items |-> <<>>], logged |-> 0]

\* clearStorage(): removeItem; an error is caught and logged.
clearStorage(slot, fault) ==
    IF fault = "unavailable"
    THEN [store |-> slot, logged |-> 1]
    ELSE [store |-> Absent, logged |-> 0]

Io(handler, writes, logged, threw, rendered) ==
    [handler |-> handler, writes |-> writes, failed |-> logged > 0 \/ threw,
     logged |-> logged, threw |-> threw, rendered |-> rendered]

\* The three functions of the storage module, called with the manager's
\* collection as TaskApp.saveToStorage does.
saveTasksCall(fault) ==
    \E saved \in {saveTasks(getAllTasks(tasks), store, fault)} :
        /\ call' = Call("saveTasks")
        /\ store' = saved.store
        /\ ret' = IF saved.threw THEN Ret("throw") ELSE Void
        /\ io' = Io("saveTasks", saved.writes, saved.logged, saved.threw, FALSE)
        /\ UNCHANGED <<tasks, currentFilter, clock, hist, view, failures, lastSaved, readFailed>>

storageLoadTasksCall(fault) ==
    \E loaded \in {storageLoadTasks(store, fault)} :
        /\ call' = Call("storage.loadTasks")
        /\ ret' = IF loaded.value.isArray
                  THEN RetTasks(loaded.value.items)
                  ELSE Ret("not an array")
        /\ io' = Io("loadTasks", 0, loaded.logged, FALSE, FALSE)
        /\ UNCHANGED <<tasks, currentFilter, clock, hist, store, view, failures, lastSaved,
                     readFailed>>

storageLoadTasksJsCall(fault) ==
    \E loaded \in {storageLoadTasksJs(store, fault)} :
        /\ call' = Call("js storage.loadTasks")
        /\ ret' = IF loaded.value.isArray
                  THEN RetTasks(loaded.value.items)
                  ELSE Ret("not an array")
        /\ io' = Io("loadTasks", 0, loaded.logged, FALSE, FALSE)
        /\ UNCHANGED <<tasks, currentFilter, clock, hist, store, view, failures, lastSaved,
                     readFailed>>

clearStorageCall(fault) ==
    LET cleared == clearStorage(store, fault)
    IN  /\ call' = Call("clearStorage")
        /\ store' = cleared.store
        /\ ret' = Void
        /\ io' = Io("clearStorage", 0, cleared.logged, FALSE, FALSE)
        /\ UNCHANGED <<tasks, currentFilter, clock, hist, view, failures, lastSaved, readFailed>>

\* Texts that are not JSON, and JSON texts that are no array: what the slot
\* may hold when something else wrote it.
MalformedTexts ==
    {<<>>,
     <<Tok("[")>>,
     <<Tok("junk")>>,
     <<Tok("["), NumTok(1), Tok(","), Tok("]")>>,
     <<Tok("["), Tok("]"), Tok("]")>>,
     <<StrTok(<<"a", "\\">>)>>,
     <<Tok("{"), StrTok(<<"id">>), NumTok(1), Tok("}")>>}
NonArrayTexts ==
    {<<Tok("null")>>,
     <<NumTok(1)>>,
     <<Tok("true")>>,
     <<StrTok(<<"a">>)>>,
     <<Tok("{"), Tok("}")>>,
     <<Tok("{"), StrTok(<<"length">>), Tok(":"), NumTok(1), Tok("}")>>,
     <<Tok("{"), StrTok(<<"tasks">>), Tok(":"), Tok("["), Tok("]"), Tok("}")>>}

\* Something other than this program writes the slot.
storeOverwritten(slot) ==
    /\ call' = Call("overwrite")
    /\ store' = slot
    /\ ret' = Void
    /\ io' = NoIo
    /\ UNCHANGED <<tasks, currentFilter, clock, hist, view, failures, lastSaved, readFailed>>

\* What is typed when the text is to be stored: quotes and backslashes too.
StoredTexts == {<<" ", "\"", "a", "\"">>, <<"\\">>}

\* --------------------------------------------------------------- TaskApp
\* escapeHtml: textContent read back as innerHTML.
RECURSIVE escapeHtml(_)
escapeHtml(text) ==
    IF text = <<>> THEN <<>>
    ELSE (CASE Head(text) = "&" -> <<"&amp;">>
            [] Head(text) = "<" -> <<"&lt;">>
            [] Head(text) = ">" -> <<"&gt;">>
            [] OTHER -> <<Head(text)>>) \o escapeHtml(Tail(text))

\* createTaskHTML(task): what one task puts on the page.
createTaskHTML(task) ==
    [id |-> task.id, completed |-> task.completed, text |-> escapeHtml(task.text)]

\* updateStats(stats): "N task(s)", and the two counts when both are positive.
updateStats(stats) ==
    <<stats.total, IF stats.total # 1 THEN "tasks" ELSE "task">>
        \o (IF stats.active > 0 /\ stats.completed > 0
            THEN <<stats.active, "active", stats.completed, "completed">>
            ELSE <<>>)

\* render() from getAllTasks() in place of getFilteredTasks().
renderUnfiltered(ts, filter) ==
    LET shown == getAllTasks(ts)
        stats == getStats(ts)
    IN  [taskList |-> [k \in 1..Len(shown) |-> createTaskHTML(shown[k])],
         emptyState |-> Len(shown) = 0,
         taskCount |-> updateStats(stats),
         clearCompletedBtn |-> stats.completed > 0]

\* render(): the page made from getFilteredTasks() and getStats().
render(ts, filter) ==
    LET shown == getFilteredTasks(ts, filter)
        stats == getStats(ts)
    IN  [taskList |-> [k \in 1..Len(shown) |-> createTaskHTML(shown[k])],
         emptyState |-> Len(shown) = 0,
         taskCount |-> updateStats(stats),
         clearCompletedBtn |-> stats.completed > 0]

\* A handler that returns without saving or rendering.
Returns(handler) ==
    /\ io' = Io(handler, 0, 0, FALSE, FALSE)
    /\ UNCHANGED <<store, view, failures, lastSaved, readFailed>>

\* saveToStorage() then render(), on the state the manager's method left; an
\* error escaping saveToStorage would end the handler before render().
SaveAndRender(handler, fault) ==
    \E saved \in {saveTasks(getAllTasks(tasks'), store, fault)} :
        /\ fault # "none" => failures < MaxFailures
        /\ failures' = IF fault # "none" THEN failures + 1 ELSE failures
        /\ store' = saved.store
        /\ lastSaved' = IF saved.logged = 0 /\ ~saved.threw THEN getAllTasks(tasks')
                        ELSE lastSaved
        /\ io' = Io(handler, saved.writes, saved.logged, saved.threw, ~saved.threw)
        /\ view' = IF saved.threw THEN view ELSE render(tasks', currentFilter')
        /\ UNCHANGED readFailed

\* The ids the page offers: render() attaches the toggle and delete listeners
\* of every task shown.
Shown == {view.taskList[k].id : k \in 1..Len(view.taskList)}

Started == io.handler # "none"

\* new TaskApp() without its loadFromStorage(): a new manager, render().
TaskAppConstructorNoLoad(fault) ==
    /\ fault = "none"
    /\ call' = Call("new")
    /\ tasks' = <<>>
    /\ currentFilter' = "all"
    /\ ret' = Void
    /\ hist' = Tainted
    /\ io' = Io("constructor", 0, 0, FALSE, TRUE)
    /\ view' = render(tasks', currentFilter')
    /\ readFailed' = FALSE
    /\ UNCHANGED <<clock, store, failures, lastSaved>>

\* new TaskApp(): a new manager, loadFromStorage(), render().
TaskAppConstructor(fault) ==
    \E loaded \in {storageLoadTasks(store, fault)} :
        /\ call' = [Call("loadTasks") EXCEPT !.cand = loaded.value]
        /\ tasks' = loadTasksResult(loaded.value)
        /\ currentFilter' = "all"
        /\ ret' = Void
        /\ hist' = Tainted
        /\ io' = Io("constructor", 0, loaded.logged, FALSE, TRUE)
        /\ view' = render(tasks', currentFilter')
        /\ readFailed' = (loaded.logged > 0)
        /\ UNCHANGED <<clock, store, failures, lastSaved>>

handleAddTask(text, fault) ==
    /\ Started
    /\ addTask(text)
    /\ IF ret'.tag = "task"
       THEN SaveAndRender("handleAddTask", fault)
       ELSE fault = "none" /\ Returns("handleAddTask")

handleDeleteTask(id, confirmed, fault) ==
    /\ Started
    /\ id \in Shown
    /\ IF confirmed
       THEN removeTask(id) /\ SaveAndRender("handleDeleteTask", fault)
       ELSE /\ fault = "none"
            /\ call' = Call("confirm")
            /\ ret' = RetBool(FALSE)
            /\ Returns("handleDeleteTask")
            /\ UNCHANGED <<tasks, currentFilter, clock, hist>>

\* handleToggleTask without its saveToStorage(): toggle, then render.
handleToggleTaskUnsaved(id, fault) ==
    /\ Started
    /\ id \in Shown
    /\ fault = "none"
    /\ toggleTask(id)
    /\ io' = Io("handleToggleTask", 0, 0, FALSE, TRUE)
    /\ view' = render(tasks', currentFilter')
    /\ UNCHANGED <<store, failures, lastSaved, readFailed>>

handleToggleTask(id, fault) ==
    /\ Started
    /\ id \in Shown
    /\ toggleTask(id)
    /\ SaveAndRender("handleToggleTask", fault)

\* The buttons' data-filter; an empty one is not passed on.
handleFilterChange(filter) ==
    /\ Started
    /\ filter # ""
    /\ setFilter(filter)
    /\ io' = Io("handleFilterChange", 0, 0, FALSE, TRUE)
    /\ view' = render(tasks', currentFilter')
    /\ UNCHANGED <<store, failures, lastSaved, readFailed>>

handleClearCompleted(fault) ==
    /\ Started
    /\ clearCompleted
    /\ IF ret'.n > 0
       THEN SaveAndRender("handleClearCompleted", fault)
       ELSE fault = "none" /\ Returns("handleClearCompleted")

\* What is typed into the page's input.
AppTexts == {<<>>, <<" ">>, <<" ", "<", " ">>}

\* ---------------------------------------------------- js/taskManager.js
\* The methods of the TaskManager of the JavaScript build, each as the
\* collection, filter or value it gives.
jsCreateTask(text, id, now, iso) ==
    [id |-> IF id = NoId \/ id = {0} THEN now ELSE CHOOSE n \in id : TRUE,
     text |-> Trim(text),
     completed |-> FALSE,
     createdAt |-> iso]

\* !text || !text.trim()
jsIsInvalidText(text) == text = <<>> \/ Trim(text) = <<>>

\* addTask(text): the collection and the value returned.
jsAddTask(ts, text, now) ==
    IF jsIsInvalidText(text)
    THEN [tasks |-> ts, ret |-> Ret("null")]
    ELSE LET task == jsCreateTask(text, NoId, now, ToISOString(now))
         IN  [tasks |-> Append(ts, task), ret |-> RetTask(task)]

jsRemoveTask(ts, id) ==
    LET kept == SelectSeq(ts, LAMBDA task : task.id # id)
    IN  [tasks |-> kept, ret |-> RetBool(Len(kept) < Len(ts))]

jsToggleTask(ts, id) ==
    LET i == findIndex(ts, id)
    IN  IF i # 0
        THEN [tasks |-> [ts EXCEPT ![i].completed = ~@],
              ret |-> RetTask([ts[i] EXCEPT !.completed = ~@])]
        ELSE [tasks |-> ts, ret |-> Ret("null")]

jsClearCompleted(ts) ==
    LET kept == SelectSeq(ts, LAMBDA task : ~task.completed)
    IN  [tasks |-> kept, ret |-> RetNum(Len(ts) - Len(kept))]

jsGetFilteredTasks(ts, filter) ==
    CASE filter = "active" -> SelectSeq(ts, LAMBDA task : ~task.completed)
      [] filter = "completed" -> SelectSeq(ts, LAMBDA task : task.completed)
      [] OTHER -> ts

jsSetFilter(current, filter) ==
    IF filter \in {"all", "active", "completed"} THEN filter ELSE current

jsGetStats(ts) ==
    [total |-> Len(ts),
     active |-> Len(SelectSeq(ts, LAMBDA t : ~t.completed)),
     completed |-> Len(SelectSeq(ts, LAMBDA t : t.completed))]

jsLoadTasks(cand) == IF cand.isArray THEN cand.items ELSE <<>>

jsGetAllTasks(ts) == ts

\* ------------------------------------------------------------------ init
Init ==
    /\ tasks = <<>>
    /\ currentFilter = "all"
    /\ clock = 1
    /\ call = NoCall
    /\ ret = Void
    /\ hist = Fresh
    /\ store = Absent
    /\ view = NoView
    /\ io = NoIo
    /\ failures = 0
    /\ lastSaved = <<>>
    /\ readFailed = FALSE

Next ==
    \/ \E text \in Texts : addTask(text) /\ UNCHANGED appVars
    \/ \E id \in IdArgs : removeTask(id) /\ UNCHANGED appVars
    \/ \E id \in IdArgs : toggleTask(id) /\ UNCHANGED appVars
    \/ clearCompleted /\ UNCHANGED appVars
    \/ \E filter \in FilterArgs : setFilter(filter) /\ UNCHANGED appVars
    \/ \E cand \in Candidates : loadTasks(cand) /\ UNCHANGED appVars

Spec == Init /\ [][Next]_vars

\* A session in which every task comes from addTask: the operations the user
\* interface offers on a collection that started empty, with no loadTasks.
NextSession ==
    \/ \E text \in Texts : addTask(text) /\ UNCHANGED appVars
    \/ \E id \in IdArgs : removeTask(id) /\ UNCHANGED appVars
    \/ \E id \in IdArgs : toggleTask(id) /\ UNCHANGED appVars
    \/ clearCompleted /\ UNCHANGED appVars
    \/ \E filter \in FilterArgs : setFilter(filter) /\ UNCHANGED appVars

SpecSession == Init /\ [][NextSession]_vars

\* A session in which createTask is called directly as well.
NextCreateTask ==
    \/ NextSession
    \/ \E text \in Texts, idArg \in CreateIdArgs :
          createTaskCall(text, idArg) /\ UNCHANGED appVars

SpecCreateTask == Init /\ [][NextCreateTask]_vars

\* The manager with its queries called as well: every public method.
NextQueries ==
    \/ Next
    \/ getFilteredTasksCall /\ UNCHANGED appVars
    \/ getStatsCall /\ UNCHANGED appVars
    \/ getAllTasksCall /\ UNCHANGED appVars

SpecQueries == Init /\ [][NextQueries]_vars

\* The storage module used on the manager's collection, with a store that
\* may fail and a slot that others may write.  The collection is built while
\* the slot is empty, so that the slot holds a text of the collection beside
\* it, or a text from elsewhere.
NextStorage ==
    \/ \E text \in StoredTexts : ~store.present /\ addTask(text) /\ UNCHANGED appVars
    \/ \E id \in IdArgs : ~store.present /\ toggleTask(id) /\ UNCHANGED appVars
    \/ \E fault \in Faults : saveTasksCall(fault)
    \/ \E fault \in ReadFaults : storageLoadTasksCall(fault)
    \/ \E fault \in ReadFaults : storageLoadTasksJsCall(fault)
    \/ \E fault \in ReadFaults : clearStorageCall(fault)
    \/ \E text \in MalformedTexts \cup NonArrayTexts : storeOverwritten(Slot(text))

SpecStorage == Init /\ [][NextStorage]_vars

\* TaskApp: the page is loaded (and loaded again), and its handlers run one
\* at a time, each to its end.
NextApp ==
    \/ \E fault \in ReadFaults : TaskAppConstructor(fault)
    \/ \E text \in AppTexts, fault \in Faults : handleAddTask(text, fault)
    \/ \E id \in IdArgs, confirmed \in BOOLEAN, fault \in Faults :
          handleDeleteTask(id, confirmed, fault)
    \/ \E id \in IdArgs, fault \in Faults : handleToggleTask(id, fault)
    \/ \E filter \in FilterArgs : handleFilterChange(filter)
    \/ \E fault \in Faults : handleClearCompleted(fault)

SpecApp == Init /\ [][NextApp]_vars

\* ================================================================ claims
Positions(ts) == 1..Len(ts)
Holders(ts, id) == {i \in Positions(ts) : ts[i].id = id}
Flipped(t) == [t EXCEPT !.completed = ~@]

\* C1: in every reachable state no two tasks of the collection have the same
\* id.
UniqueIds ==
    \A i \in Positions(tasks) : \A j \in Positions(tasks) :
        i # j => tasks[i].id # tasks[j].id

\* C2: addTask(s) of a text whose trimmed form is not empty makes the
\* collection one longer, appends the new task as the last element, leaves the
\* earlier elements as they were, and returns that task, whose text is
\* trim(s) and whose completed is false.
AddTaskAppends ==
    [][(call'.op = "addTask" /\ Trim(call'.text) # <<>>) =>
          /\ Len(tasks') = Len(tasks) + 1
          /\ SubSeq(tasks', 1, Len(tasks)) = tasks
          /\ ret'.tag = "task"
          /\ ret'.tasks = <<tasks'[Len(tasks')]>>
          /\ tasks'[Len(tasks')].text = Trim(call'.text)
          /\ tasks'[Len(tasks')].completed = FALSE]_vars

\* An addTask of a text with whitespace around it has appended to a collection
\* that already held a completed task.
AddTaskAppendsWitness ==
    /\ call.op = "addTask"
    /\ ret.tag = "task"
    /\ call.text # Trim(call.text)
    /\ Len(tasks) >= 2
    /\ tasks[1].completed

\* C3: addTask(s) of an empty or whitespace-only text returns null and leaves
\* the collection and the filter unchanged.
AddTaskRejectsBlank ==
    [][(call'.op = "addTask" /\ Trim(call'.text) = <<>>) =>
          /\ ret'.tag = "null"
          /\ tasks' = tasks
          /\ currentFilter' = currentFilter]_vars

\* A whitespace-only text was refused while the collection held tasks and the
\* filter was not the default.
AddTaskRejectsBlankWitness ==
    /\ call.op = "addTask"
    /\ call.text # <<>>
    /\ Trim(call.text) = <<>>
    /\ ret.tag = "null"
    /\ tasks # <<>>
    /\ currentFilter = "completed"

\* C4: for every task t at any position of the collection, toggleTask(t.id)
\* flips t.completed, leaves t's id, text and createdAt, leaves every other
\* task unchanged, and changes neither the length nor the order.
ToggleFlipsThatTaskOnly ==
    [][call'.op = "toggleTask" =>
          \A i \in Holders(tasks, call'.id) :
              /\ Len(tasks') = Len(tasks)
              /\ tasks'[i] = Flipped(tasks[i])
              /\ \A j \in Positions(tasks) \ {i} : tasks'[j] = tasks[j]]_vars

\* C5: removeTask(id) of an id in the collection returns true, makes the
\* collection exactly one shorter, and leaves exactly the other tasks, in
\* their order.
RemoveTakesExactlyOne ==
    [][(call'.op = "removeTask" /\ Holders(tasks, call'.id) # {}) =>
          /\ ret'.tag = "true"
          /\ Len(tasks') = Len(tasks) - 1
          /\ \E i \in Holders(tasks, call'.id) : tasks' = RemoveAt(tasks, i)]_vars

\* C6: for an id no task holds, removeTask(id) returns false and
\* toggleTask(id) returns null, and both leave the collection and the filter
\* as they were.
UnknownIdIsNoOp ==
    [][(call'.op \in {"removeTask", "toggleTask"} /\ Holders(tasks, call'.id) = {}) =>
          /\ ret'.tag = (IF call'.op = "removeTask" THEN "false" ELSE "null")
          /\ tasks' = tasks
          /\ currentFilter' = currentFilter]_vars

\* removeTask of an id that nobody holds returned false on a collection of
\* several tasks.
UnknownIdIsNoOpWitness ==
    /\ call.op = "removeTask"
    /\ ret.tag = "false"
    /\ Holders(tasks, call.id) = {}
    /\ Len(tasks) >= 2

\* C7: clearCompleted() removes exactly the completed tasks, keeps the others
\* in their order, and returns how many it removed (0, and the collection
\* unchanged, when none was completed).
ClearCompletedRemovesExactlyCompleted ==
    [][call'.op = "clearCompleted" =>
          LET done == {i \in Positions(tasks) : tasks[i].completed}
          IN  /\ tasks' = SelectSeq(tasks, LAMBDA t : ~t.completed)
              /\ \A k \in Positions(tasks') : ~tasks'[k].completed
              /\ Len(tasks') = Len(tasks) - Cardinality(done)
              /\ ret'.tag = "number"
              /\ ret'.n = Cardinality(done)
              /\ (done = {} => tasks' = tasks /\ ret'.n = 0)]_vars

\* clearCompleted removed two tasks and kept one that was added between them.
ClearCompletedWitness ==
    /\ call.op = "clearCompleted"
    /\ ret.n = 2
    /\ Len(tasks) = 1

\* C8: in every reachable state getStats() has active + completed = total.
StatsAddUp ==
    LET stats == getStats(tasks)
    IN  stats.active + stats.completed = stats.total

\* A collection that holds both completed and active tasks.
StatsAddUpWitness ==
    /\ Len(tasks) = 3
    /\ getStats(tasks).completed = 2
    /\ getStats(tasks).active = 1

\* C9: in every reachable state getStats() has total = the length of the
\* collection, active = the number of tasks not completed and completed = the
\* number of completed tasks, whatever the filter; after adding 3 tasks and
\* toggling one it is {total: 3, active: 2, completed: 1}.
StatsCountTheCollection ==
    LET stats == getStats(tasks)
    IN  /\ stats.total = Len(tasks)
        /\ stats.active = Cardinality({i \in Positions(tasks) : ~tasks[i].completed})
        /\ stats.completed = Cardinality({i \in Positions(tasks) : tasks[i].completed})
        /\ (hist.pure /\ hist.toggles = "one" /\ Len(tasks) = 3 =>
               stats = [total |-> 3, active |-> 2, completed |-> 1])

\* Three tasks added, one of them toggled, nothing else done to the
\* collection, and the filter is not the default.
StatsScenarioWitness ==
    /\ hist.pure
    /\ hist.toggles = "one"
    /\ Len(tasks) = 3
    /\ call.op = "toggleTask"
    /\ currentFilter = "active"

\* C10: setFilter(v) makes v the filter when v is all, active or completed;
\* any other v leaves the filter, and so the result of getFilteredTasks(), as
\* it was; the filter is always one of the three values.
SetFilterValidates ==
    /\ [](currentFilter \in FilterTypes)
    /\ [][call'.op = "setFilter" =>
             /\ tasks' = tasks
             /\ IF call'.filter \in FilterTypes
                THEN currentFilter' = call'.filter
                ELSE /\ currentFilter' = currentFilter
                     /\ getFilteredTasks(tasks', currentFilter')
                            = getFilteredTasks(tasks, currentFilter)]_vars

\* setFilter("bogus") was refused while the filter hid part of the collection.
SetFilterValidatesWitness ==
    /\ call.op = "setFilter"
    /\ call.filter = "bogus"
    /\ currentFilter = "active"
    /\ getFilteredTasks(tasks, currentFilter) # tasks
    /\ getFilteredTasks(tasks, currentFilter) # <<>>

\* The tasks of ts at the positions S, in the order of the positions.
AtPositions(ts, S) ==
    [k \in 1..Cardinality(S) |->
        ts[CHOOSE i \in S : Cardinality({j \in S : j < i}) = k - 1]]

\* C11: getFilteredTasks() returns, in collection order, the tasks not
\* completed under the filter active, the completed tasks under the filter
\* completed and the whole collection under the filter all; calling it changes
\* neither the collection nor the filter.
FilteredTasksMatchFilter ==
    [][call'.op = "getFilteredTasks" =>
          LET wanted ==
                  CASE currentFilter = "active" ->
                           {i \in Positions(tasks) : ~tasks[i].completed}
                    [] currentFilter = "completed" ->
                           {i \in Positions(tasks) : tasks[i].completed}
                    [] currentFilter = "all" -> Positions(tasks)
          IN  /\ ret'.tag = "array"
              /\ ret'.tasks = AtPositions(tasks, wanted)
              /\ tasks' = tasks
              /\ currentFilter' = currentFilter]_vars

\* getFilteredTasks() under the filter completed returned two tasks of a
\* collection of three, skipping the one between them.
FilteredTasksWitness ==
    /\ call.op = "getFilteredTasks"
    /\ currentFilter = "completed"
    /\ Len(tasks) = 3
    /\ ~tasks[2].completed
    /\ Len(ret.tasks) = 2

\* C12: when the write succeeds, save(tasks) followed by load() returns a
\* sequence equal by value to tasks: same length, same order, same id, text,
\* completed and createdAt, for every task sequence and the empty one.
SaveLoadRoundTrip ==
    [][(call'.op = "saveTasks" /\ ~io'.failed) =>
          \E loaded \in {storageLoadTasks(store', "none").value} :
              /\ loaded.isArray
              /\ Len(loaded.items) = Len(tasks)
              /\ \A i \in Positions(tasks) :
                    /\ loaded.items[i].id = tasks[i].id
                    /\ loaded.items[i].text = tasks[i].text
                    /\ loaded.items[i].completed = tasks[i].completed
                    /\ loaded.items[i].createdAt = tasks[i].createdAt
              /\ loaded.items = tasks]_vars

\* A save that succeeded on tasks whose texts hold a quote and a backslash,
\* one of them completed.
SaveLoadRoundTripWitness ==
    /\ call.op = "saveTasks"
    /\ ~io.failed
    /\ Len(tasks) >= 2
    /\ \E i \in Positions(tasks) : tasks[i].text = <<"\\">> /\ tasks[i].completed
    /\ \E i \in Positions(tasks) : tasks[i].text = <<"\"", "a", "\"">>

\* The empty sequence was saved and the slot holds its text.
SaveEmptyWitness ==
    /\ call.op = "saveTasks"
    /\ ~io.failed
    /\ tasks = <<>>
    /\ store.present

\* ts/storage.ts alone: its loadTasks() returns the empty sequence and raises
\* no error on an absent slot, on text that does not parse and on JSON that is
\* no array.
TsLoadOfBadSlotIsEmpty ==
    [][(/\ call'.op = "storage.loadTasks"
        /\ \/ ~store.present
           \/ store.text \in MalformedTexts
           \/ store.text \in NonArrayTexts) =>
          /\ ret'.tag = "array"
          /\ ret'.tasks = <<>>
          /\ ~io'.threw]_vars

\* C13: load() returns the empty sequence and raises no error when the slot is
\* absent, holds text that does not parse, or holds JSON that is no array; in
\* the TypeScript source and in the JavaScript build.
LoadOfBadSlotIsEmpty ==
    [][(/\ call'.op \in {"storage.loadTasks", "js storage.loadTasks"}
        /\ \/ ~store.present
           \/ store.text \in MalformedTexts
           \/ store.text \in NonArrayTexts) =>
          /\ ret'.tag = "array"
          /\ ret'.tasks = <<>>
          /\ ~io'.threw
          /\ (store.present /\ store.text \in MalformedTexts => io'.logged = 1)]_vars

\* load() ran on a slot holding an object, with the store working.
LoadOfBadSlotWitness ==
    /\ call.op = "storage.loadTasks"
    /\ store.present
    /\ store.text \in NonArrayTexts
    /\ io.logged = 0
    /\ ret.tasks = <<>>

SavingHandlers ==
    {"handleAddTask", "handleDeleteTask", "handleToggleTask", "handleClearCompleted"}

\* C14: when a save fails (store full, store unavailable, serialization
\* failure) no error reaches the caller, setItem is not tried again, the
\* collection and the filter are what the manager's method left, and the
\* handler still ends with a render of that state.
FailedSaveIsSwallowed ==
    [][(io'.handler \in SavingHandlers /\ failures' > failures) =>
          /\ ~io'.threw
          /\ io'.failed
          /\ io'.logged = 1
          /\ io'.writes <= 1
          /\ store' = store
          /\ currentFilter' = currentFilter
          /\ tasks' = CASE call'.op = "addTask" -> Append(tasks, ret'.tasks[1])
                        [] call'.op = "removeTask" -> removeTaskFilter(tasks, call'.id)
                        [] call'.op = "toggleTask" -> toggleTaskTasks(tasks, call'.id)
                        [] call'.op = "clearCompleted" -> clearCompletedFilter(tasks)
          /\ io'.rendered
          /\ view'.taskList =
                 [k \in 1..Len(getFilteredTasks(tasks', currentFilter')) |->
                     createTaskHTML(getFilteredTasks(tasks', currentFilter')[k])]
          /\ view'.emptyState = (getFilteredTasks(tasks', currentFilter') = <<>>)]_vars

\* A toggle whose save failed: the page shows the task completed and the slot
\* still holds it not completed.
FailedSaveWitness ==
    /\ io.handler = "handleToggleTask"
    /\ io.failed
    /\ io.rendered
    /\ Len(tasks) = 1
    /\ tasks[1].completed
    /\ view.clearCompletedBtn
    /\ store.present
    /\ storageLoadTasks(store, "none").value.items = <<Flipped(tasks[1])>>

\* A task without its completed flag: what stays the same while it is held.
Identity(t) == [id |-> t.id, text |-> t.text, createdAt |-> t.createdAt]
Identities(ts) == [k \in 1..Len(ts) |-> Identity(ts[k])]

\* C15: addTask, removeTask, toggleTask, clearCompleted and setFilter keep
\* the tasks they leave in the collection in the order they had, and a task
\* added later stands after every task added earlier (the times of creation
\* never decrease along the collection).
InsertionOrderPreserved ==
    [][call'.op \in {"addTask", "removeTask", "toggleTask", "clearCompleted", "setFilter"} =>
          /\ \E S \in SUBSET Positions(tasks) :
                Identities(AtPositions(tasks, S)) =
                    Identities(IF call'.op = "addTask" /\ ret'.tag = "task"
                               THEN SubSeq(tasks', 1, Len(tasks') - 1)
                               ELSE tasks')
          /\ (call'.op = "addTask" /\ ret'.tag = "task") =>
                /\ Len(tasks') = Len(tasks) + 1
                /\ tasks'[Len(tasks')] = ret'.tasks[1]
          /\ \A i \in Positions(tasks') : \A j \in Positions(tasks') :
                i < j => tasks'[i].id <= tasks'[j].id]_vars

\* clearCompleted has taken one task of three; the two left are in the order
\* of their creation.
InsertionOrderWitness ==
    /\ call.op = "clearCompleted"
    /\ ret.n = 1
    /\ Len(tasks) = 2
    /\ tasks[1].id < tasks[2].id
    /\ tasks[1].text # tasks[2].text

\* C16: toggleTask(id) called again on the collection a successful
\* toggleTask(id) left gives back the collection as it was before the first
\* call: every flag and the order.
ToggleTwiceRestores ==
    [][(call'.op = "toggleTask" /\ ret'.tag = "task") =>
          /\ tasks' # tasks
          /\ toggleTaskTasks(tasks', call'.id) = tasks]_vars

\* Two tasks hold the id toggled, toggles are all that followed the adds, there
\* was more than one, and both tasks are not completed again.
ToggleTwiceWitness ==
    /\ call.op = "toggleTask"
    /\ ret.tag = "task"
    /\ hist.pure
    /\ hist.toggles = "more"
    /\ Len(tasks) = 2
    /\ Holders(tasks, call.id) = {1, 2}
    /\ ~tasks[1].completed
    /\ ~tasks[2].completed

\* A text that is not empty, not whitespace only, and its own trimmed form.
ValidText(text) == text # <<>> /\ Trim(text) = text
AllTextsValid(ts) == \A i \in Positions(ts) : ValidText(ts[i].text)

\* C17 as stated: in every reachable state, loadTasks among the operations,
\* every task of the collection has a text that is not empty, not whitespace
\* only, and equal to its trimmed form.
EveryTextValid == AllTextsValid(tasks)

\* C17, amended: every task addTask creates has a text that is not empty, not
\* whitespace only and equal to its trimmed form; addTask, removeTask,
\* toggleTask, clearCompleted and setFilter never change a text and leave a
\* collection of such texts one of such texts; loadTasks stores the texts of
\* its candidate as they are, valid or not.
TextsValidUnlessLoaded ==
    [][/\ (call'.op = "addTask" /\ ret'.tag = "task") =>
              /\ ValidText(ret'.tasks[1].text)
              /\ ret'.tasks[1].text = Trim(call'.text)
       /\ call'.op \in {"addTask", "removeTask", "toggleTask", "clearCompleted", "setFilter"} =>
              /\ AllTextsValid(tasks) => AllTextsValid(tasks')
              /\ \A i \in Positions(tasks') :
                    \/ \E j \in Positions(tasks) : tasks'[i].text = tasks[j].text
                    \/ call'.op = "addTask" /\ i = Len(tasks') /\ ret'.tag = "task"
       /\ call'.op = "loadTasks" =>
              [k \in Positions(tasks') |-> tasks'[k].text] =
                  [k \in Positions(call'.cand.items) |-> call'.cand.items[k].text]]_vars

\* A task with a whitespace-only text came in by loadTasks, and addTask of a
\* text with spaces around it has put a task with a trimmed text after it.
TextsValidWitness ==
    /\ call.op = "addTask"
    /\ call.text # Trim(call.text)
    /\ ret.tag = "task"
    /\ Len(tasks) = 2
    /\ ~ValidText(tasks[1].text)
    /\ ValidText(tasks[2].text)

\* C18: loadTasks(candidate) makes the collection the candidate when the
\* candidate is an array, dropping every task held, and the empty sequence
\* when it is not; it leaves the filter; getAllTasks() then returns exactly
\* that collection.
LoadTasksReplaces ==
    [][/\ call'.op = "loadTasks" =>
              /\ call'.cand.isArray => tasks' = call'.cand.items
              /\ ~call'.cand.isArray => tasks' = <<>>
              /\ currentFilter' = currentFilter
              /\ getAllTasks(tasks') = tasks'
       /\ (call.op = "loadTasks" /\ call'.op = "getAllTasks") =>
              /\ call.cand.isArray => ret'.tasks = call.cand.items
              /\ ~call.cand.isArray => ret'.tasks = <<>>
              /\ ret'.tag = "array"]_vars

\* getAllTasks() returns the two tasks of a candidate loaded over a collection
\* that addTask had filled, under a filter other than all.
LoadTasksReplacesWitness ==
    /\ call.op = "getAllTasks"
    /\ ret.tasks = tasks
    /\ Len(tasks) = 2
    /\ tasks[1].text = <<"b">>
    /\ tasks[2].id = 1
    /\ clock = MaxClock
    /\ currentFilter = "completed"

\* C19: createTask given an id returns a task with that id, for every integer
\* id, 0 included; given no id it returns a task whose id is the current time.
SuppliedIdIsKept ==
    [][call'.op = "createTask" =>
          /\ call'.idArg # NoId => {ret'.tasks[1].id} = call'.idArg
          /\ call'.idArg = NoId => ret'.tasks[1].id = clock']_vars

\* C19 without the id 0: createTask given an id other than 0 returns a task
\* with that id, and given no id one whose id is the current time.
NonZeroSuppliedIdIsKept ==
    [][(call'.op = "createTask" /\ call'.idArg # {0}) =>
          /\ call'.idArg # NoId => {ret'.tasks[1].id} = call'.idArg
          /\ call'.idArg = NoId => ret'.tasks[1].id = clock']_vars

\* C20: the filter is all after construction, and addTask, removeTask,
\* toggleTask, clearCompleted, loadTasks, getFilteredTasks, getStats and
\* getAllTasks leave it as it is: setFilter alone changes it.
OnlySetFilterChangesFilter ==
    /\ currentFilter = "all"
    /\ [][/\ call'.op \in {"addTask", "removeTask", "toggleTask", "clearCompleted",
                           "loadTasks", "getFilteredTasks", "getStats", "getAllTasks"} =>
                 currentFilter' = currentFilter
          /\ currentFilter' # currentFilter => call'.op = "setFilter"]_vars

\* loadTasks has replaced the collection and the filter is still active.
OnlySetFilterWitness ==
    /\ call.op = "loadTasks"
    /\ call.cand.isArray
    /\ tasks # <<>>
    /\ currentFilter = "active"

\* The TaskManager of js/ gives, on the collection and filter held, what the
\* TaskManager of ts/ gives: for every method and every argument.
JsManagerAgrees ==
    /\ \A text \in Texts \cup StoredTexts : \A now \in clock..Min(clock + 1, MaxClock) :
          /\ jsIsInvalidText(text) = isInvalidText(text)
          /\ \A id \in CreateIdArgs :
                jsCreateTask(text, id, now, ToISOString(now)) =
                    createTask(text, id, now, ToISOString(now))
          /\ jsAddTask(tasks, text, now).tasks =
                 (IF isInvalidText(text) THEN tasks
                  ELSE Append(tasks, createTask(text, NoId, now, ToISOString(now))))
    /\ \A id \in IdArgs :
          /\ jsRemoveTask(tasks, id).tasks = removeTaskFilter(tasks, id)
          /\ jsToggleTask(tasks, id).tasks = toggleTaskTasks(tasks, id)
    /\ jsClearCompleted(tasks).tasks = clearCompletedFilter(tasks)
    /\ jsGetFilteredTasks(tasks, currentFilter) = getFilteredTasks(tasks, currentFilter)
    /\ \A filter \in FilterArgs :
          jsSetFilter(currentFilter, filter) = setFilterResult(currentFilter, filter)
    /\ jsGetStats(tasks) = getStats(tasks)
    /\ \A cand \in Candidates : jsLoadTasks(cand) = loadTasksResult(cand)
    /\ jsGetAllTasks(tasks) = getAllTasks(tasks)

\* C21: the build under js/ behaves as the sources under ts/: for every
\* content of the slot the loadTasks of js/storage.js returns what the
\* loadTasks of ts/storage.ts returns, and every method of the TaskManager of
\* js/ gives the collection, filter and value the one of ts/ gives.
JsBuildAgrees ==
    /\ \A fault \in ReadFaults :
          storageLoadTasksJs(store, fault) = storageLoadTasks(store, fault)
    /\ JsManagerAgrees

\* C22 as stated: while every write to the store has succeeded, after the
\* constructor and after every handler load() on the slot returns a sequence
\* equal to getAllTasks(), and a handler that changes the collection saves it.
SlotMatchesCollection ==
    [][failures' = 0 =>
          /\ \E loaded \in {storageLoadTasks(store', "none").value} :
                /\ loaded.isArray
                /\ loaded.items = getAllTasks(tasks')
          /\ (io'.handler # "constructor" /\ tasks' # tasks) =>
                io'.writes = 1 /\ ~io'.failed]_vars

\* C22, amended: while every write to the store has succeeded and the load of
\* the constructor was not refused by the store, after the constructor and
\* after every handler load() on the slot returns a sequence equal to
\* getAllTasks(), and a handler that changes the collection saves it before it
\* ends; a constructor whose load fails starts with the empty collection
\* whatever the slot holds.
SlotMatchesCollectionWhenRead ==
    [][/\ (failures' = 0 /\ ~readFailed') =>
              /\ \E loaded \in {storageLoadTasks(store', "none").value} :
                    /\ loaded.isArray
                    /\ loaded.items = getAllTasks(tasks')
              /\ (io'.handler # "constructor" /\ tasks' # tasks) =>
                    io'.writes = 1 /\ ~io'.failed
       /\ (io'.handler = "constructor" /\ readFailed') =>
              tasks' = <<>> /\ store' = store]_vars

\* No write and no read has failed, the page was loaded again, and a toggle
\* has completed the second of two tasks and saved the collection.
SlotMatchesWitness ==
    /\ io.handler = "handleToggleTask"
    /\ io.writes = 1
    /\ failures = 0
    /\ ~readFailed
    /\ hist = Tainted
    /\ Len(tasks) = 2
    /\ tasks[2].completed
    /\ ~tasks[1].completed
    /\ store.present
    /\ lastSaved = tasks

\* C23 as stated: with saves that may fail, constructing TaskApp again gives
\* the collection as it was at the last successful save, empty when none
\* succeeded, and the filter all.
ReloadGivesLastSaved ==
    [][io'.handler = "constructor" =>
          /\ tasks' = lastSaved
          /\ currentFilter' = "all"]_vars

\* C23, amended: with saves that may fail, constructing TaskApp again gives
\* the filter all and, when its load is not refused by the store, the
\* collection as it was at the last successful save (empty when none
\* succeeded), whatever was changed since; when its load is refused it gives
\* the empty collection and leaves the slot.
ReloadGivesLastSavedWhenRead ==
    [][io'.handler = "constructor" =>
          /\ ~readFailed' => tasks' = lastSaved
          /\ readFailed' => tasks' = <<>>
          /\ currentFilter' = "all"
          /\ store' = store
          /\ lastSaved' = lastSaved]_vars

\* The page was loaded again after a save had failed: one task, as last
\* saved, though the clock shows a later add.
ReloadWitness ==
    /\ io.handler = "constructor"
    /\ ~readFailed
    /\ failures > 0
    /\ Len(tasks) = 1
    /\ tasks = lastSaved
    /\ tasks[1].id < clock
    /\ currentFilter = "all"

\* What the browser shows for the markup of a task's text: the entities read
\* back as the characters they stand for.
RECURSIVE displayedText(_)
displayedText(html) ==
    IF html = <<>> THEN <<>>
    ELSE (CASE Head(html) = "&amp;" -> <<"&">>
            [] Head(html) = "&lt;" -> <<"<">>
            [] Head(html) = "&gt;" -> <<">">>
            [] OTHER -> <<Head(html)>>) \o displayedText(Tail(html))

\* The page shows the state held: the tasks of getFilteredTasks() in their
\* order, the empty-state marker exactly when there is none, the
\* clear-completed button exactly when a task is completed.
ViewIsFresh ==
    LET shown == getFilteredTasks(tasks, currentFilter)
    IN  /\ Len(view.taskList) = Len(shown)
        /\ \A k \in 1..Len(shown) :
              /\ view.taskList[k].id = shown[k].id
              /\ view.taskList[k].completed = shown[k].completed
              /\ displayedText(view.taskList[k].text) = shown[k].text
        /\ view.emptyState = (shown = <<>>)
        /\ view.clearCompletedBtn = (getStats(tasks).completed > 0)

\* C24: after the constructor and after every handler the page is not stale:
\* the list shown is getFilteredTasks() of the state held, the empty-state
\* marker is visible exactly when that list is empty, the clear-completed
\* button is shown exactly when getStats().completed > 0; and every handler
\* that changes the collection or the filter ends with a render.
ViewNeverStale ==
    [][/\ ViewIsFresh'
       /\ (tasks' # tasks \/ currentFilter' # currentFilter) => io'.rendered]_vars

\* Under the filter active, a toggle has completed the only task, whose text
\* holds a "<": the list is empty, the marker visible and the button shown.
ViewNeverStaleWitness ==
    /\ io.handler = "handleToggleTask"
    /\ io.rendered
    /\ currentFilter = "active"
    /\ Len(tasks) = 1
    /\ tasks[1].completed
    /\ tasks[1].text = <<"<">>
    /\ view.taskList = <<>>
    /\ view.emptyState
    /\ view.clearCompletedBtn
====
